---- MODULE Spec2Model ----
(***************************************************************************)
(* Model of the feature lifecycle orchestrator of source/main.cpp: the     *)
(* global registry `features`, its mutex `featuresReadWriteLock`, the      *)
(* flag `attemptingShutdown`, shutdown(), handle_feature_stopped(), the    *)
(* DefaultClientBaseNotifier callbacks and main().                         *)
(*                                                                         *)
(* Threads: "main" runs main(); every feature owns one thread (named like  *)
(* the feature) from which it raises events and errors.  Each thread has a *)
(* call stack of frames; a frame is one activation of main, shutdown,      *)
(* handle_feature_stopped or of a feature method (init, start, stop).      *)
(* Statements that touch shared state are separate steps, so every         *)
(* interleaving of the threads is explored.                                *)
(***************************************************************************)
EXTENDS Integers, Sequences, FiniteSets, TLC

\* Number of SIGINTs the environment delivers at most.
MaxInterrupts == 2

Features == {"jobs", "tunneling"}
Threads == {"main"} \cup Features

EventKinds == {"FEATURE_STARTED", "FEATURE_STOPPED", "OTHER_EVENT"}
ErrorKinds == {"SUBSCRIPTION_REJECTED", "MESSAGE_RECEIVED_AFTER_SHUTDOWN", "OTHER_ERROR"}

VARIABLES
    features,               \* vector<Feature*> features
    featuresReadWriteLock,  \* owner of the mutex, or "none"
    attemptingShutdown,     \* bool attemptingShutdown
    config,                 \* config.config.{jobs,tunneling}.enabled
    NDEBUG,                 \* TRUE: release build, FALSE: debug build
    stack,                  \* call stack of every thread
    exitStatus,             \* "running", "exit0" (exit(0) / return 0), "abort"
    loggerShutdowns,        \* calls of LoggerFactory::getLoggerInstance()->shutdown()
    sigBlocked,             \* SIGINT blocked by sigprocmask
    resourceManager,        \* "none", "initialized", "disconnected"
    constructed,            \* features constructed by main
    initCalls,              \* init() calls per feature
    startCalls,             \* start() calls per feature
    stopCalls,              \* stop() calls per feature
    stoppedSent,            \* features that have raised FEATURE_STOPPED
    spontaneous,            \* features that raised FEATURE_STOPPED before any stop()
    shutdownCalls,          \* shutdown() calls per thread
    firstBranch,            \* shutdown() calls that took the if-branch (line 31)
    interrupts,             \* SIGINTs taken by sigwait
    emptier,                \* thread whose erase left the registry empty
    last,                   \* the step taken last: [op, t, arg]
    disconnects,            \* calls of resourceManager->disconnect()
    sigintShutdowns,        \* shutdown() calls made by main's signal loop (line 178)
    startOrder,             \* features in the order start() was called on them
    snapshotOf,             \* per thread: the registry when it executed line 36
    plain                   \* the PlainConfig under resolution (ConfigSpec only)

vars == <<features, featuresReadWriteLock, attemptingShutdown, config, NDEBUG,
          stack, exitStatus, loggerShutdowns, sigBlocked, resourceManager,
          constructed, initCalls, startCalls, stopCalls, stoppedSent,
          spontaneous, shutdownCalls, firstBranch, interrupts, emptier, last,
          disconnects, sigintShutdowns, startOrder, snapshotOf, plain>>

\* ---------------------------------------------------------------- frames

Frame(fn, pc, f) == [fn |-> fn, pc |-> pc, f |-> f, copy |-> <<>>, i |-> 0, size |-> 0]

Top(t) == stack[t][Len(stack[t])]
HasTop(t, fn, pc) == Len(stack[t]) > 0 /\ Top(t).fn = fn /\ Top(t).pc = pc
Pop(s) == SubSeq(s, 1, Len(s) - 1)
SetTop(s, fr) == [s EXCEPT ![Len(s)] = fr]
Did(op, t, arg) == last' = [op |-> op, t |-> t, arg |-> arg]
Running == exitStatus = "running"

\* RemoveAt erasing the element after position k.
RemoveAt_Next(v, k) == SubSeq(v, 1, k) \o SubSeq(v, k + 2, Len(v))

RemoveAt(v, k) == SubSeq(v, 1, k - 1) \o SubSeq(v, k + 1, Len(v))

\* EraseLoop finding nothing to erase.
EraseLoop_None(v, feature, i) == v

\* The loop of handle_feature_stopped (lines 54-60); i is the 0-based index.
\* After an erase the index still advances.
RECURSIVE EraseLoop(_, _, _)
EraseLoop(v, feature, i) ==
    IF i >= Len(v) THEN v
    ELSE IF v[i + 1] = feature
         THEN EraseLoop(RemoveAt(v, i + 1), feature, i + 1)
         ELSE EraseLoop(v, feature, i + 1)

Init ==
    /\ features = <<>>
    /\ featuresReadWriteLock = "none"
    /\ attemptingShutdown = FALSE
    /\ config = [jobs |-> FALSE, tunneling |-> FALSE]
    /\ NDEBUG \in BOOLEAN
    /\ stack = [t \in Threads |-> IF t = "main" THEN <<Frame("main", "parse", "none")>> ELSE <<>>]
    /\ exitStatus = "running"
    /\ loggerShutdowns = 0
    /\ sigBlocked = FALSE
    /\ resourceManager = "none"
    /\ constructed = {}
    /\ initCalls = [f \in Features |-> 0]
    /\ startCalls = [f \in Features |-> 0]
    /\ stopCalls = [f \in Features |-> 0]
    /\ stoppedSent = {}
    /\ spontaneous = {}
    /\ shutdownCalls = [t \in Threads |-> 0]
    /\ firstBranch = 0
    /\ interrupts = 0
    /\ emptier = "none"
    /\ last = [op |-> "init", t |-> "main", arg |-> "none"]
    /\ disconnects = 0
    /\ sigintShutdowns = 0
    /\ startOrder = <<>>
    /\ snapshotOf = [t \in Threads |-> <<>>]
    /\ plain = "unused"

\* ------------------------------------------------------------------ main

\* MainParse without the `return 0` of line 124: a failed parse falls through.
MainParse_NoReturn(ok, je, te) ==
    /\ Running /\ HasTop("main", "main", "parse")
    /\ config' = IF ok THEN [jobs |-> je, tunneling |-> te] ELSE config
    /\ stack' = [stack EXCEPT !["main"] = SetTop(@, [Top("main") EXCEPT !.pc = "sigmask"])]
    /\ loggerShutdowns' = IF ok THEN loggerShutdowns ELSE loggerShutdowns + 1
    /\ Did("MainParse", "main", IF ok THEN "ok" ELSE "failed")
    /\ UNCHANGED <<features, featuresReadWriteLock, attemptingShutdown, NDEBUG, sigBlocked,
                   resourceManager, constructed, initCalls, startCalls, stopCalls, stoppedSent,
                   spontaneous, shutdownCalls, firstBranch, interrupts, emptier, exitStatus,
                   disconnects, sigintShutdowns, startOrder, snapshotOf, plain>>

\* Lines 120-125: ParseCliArgs and config.init; on failure the logger is shut
\* down and main returns 0.  `ok` is the result, `je`, `te` the enabled flags
\* of the resolved configuration.
MainParse(ok, je, te) ==
    /\ Running /\ HasTop("main", "main", "parse")
    /\ IF ok
       THEN /\ config' = [jobs |-> je, tunneling |-> te]
            /\ stack' = [stack EXCEPT !["main"] = SetTop(@, [Top("main") EXCEPT !.pc = "sigmask"])]
            /\ UNCHANGED <<loggerShutdowns, exitStatus>>
       ELSE /\ loggerShutdowns' = loggerShutdowns + 1
            /\ exitStatus' = "exit0"
            /\ UNCHANGED <<config, stack>>
    /\ Did("MainParse", "main", IF ok THEN "ok" ELSE "failed")
    /\ UNCHANGED <<features, featuresReadWriteLock, attemptingShutdown, NDEBUG, sigBlocked,
                   resourceManager, constructed, initCalls, startCalls, stopCalls, stoppedSent,
                   spontaneous, shutdownCalls, firstBranch, interrupts, emptier,
                   disconnects, sigintShutdowns, startOrder, snapshotOf, plain>>

\* Lines 127-132: SIGINT is blocked for the process.
MainBlockSignal ==
    /\ Running /\ HasTop("main", "main", "sigmask")
    /\ sigBlocked' = TRUE
    /\ stack' = [stack EXCEPT !["main"] = SetTop(@, [Top("main") EXCEPT !.pc = "rminit"])]
    /\ Did("MainBlockSignal", "main", "none")
    /\ UNCHANGED <<features, featuresReadWriteLock, attemptingShutdown, config, NDEBUG,
                   exitStatus, loggerShutdowns, resourceManager, constructed, initCalls,
                   startCalls, stopCalls, stoppedSent, spontaneous, shutdownCalls,
                   firstBranch, interrupts, emptier,
                   disconnects, sigintShutdowns, startOrder, snapshotOf, plain>>

\* MainInitResourceManager without the abort() of line 145: a failed
\* initialisation is logged and main carries on.
MainInitResourceManager_NoAbort(ok) ==
    /\ Running /\ HasTop("main", "main", "rminit")
    /\ resourceManager' = IF ok THEN "initialized" ELSE resourceManager
    /\ loggerShutdowns' = IF ok THEN loggerShutdowns ELSE loggerShutdowns + 1
    /\ stack' = [stack EXCEPT !["main"] = SetTop(@, [Top("main") EXCEPT !.pc = "lock"])]
    /\ Did("MainInitResourceManager", "main", IF ok THEN "ok" ELSE "failed")
    /\ UNCHANGED <<features, featuresReadWriteLock, attemptingShutdown, config, NDEBUG,
                   sigBlocked, constructed, initCalls, startCalls, stopCalls, stoppedSent,
                   spontaneous, shutdownCalls, firstBranch, interrupts, emptier, exitStatus,
                   disconnects, sigintShutdowns, startOrder, snapshotOf, plain>>

\* Lines 135-146: the resource manager is initialised; on failure the logger
\* is shut down and the process aborts.
MainInitResourceManager(ok) ==
    /\ Running /\ HasTop("main", "main", "rminit")
    /\ IF ok
       THEN /\ resourceManager' = "initialized"
            /\ stack' = [stack EXCEPT !["main"] = SetTop(@, [Top("main") EXCEPT !.pc = "lock"])]
            /\ UNCHANGED <<loggerShutdowns, exitStatus>>
       ELSE /\ loggerShutdowns' = loggerShutdowns + 1
            /\ exitStatus' = "abort"
            /\ UNCHANGED <<resourceManager, stack>>
    /\ Did("MainInitResourceManager", "main", IF ok THEN "ok" ELSE "failed")
    /\ UNCHANGED <<features, featuresReadWriteLock, attemptingShutdown, config, NDEBUG,
                   sigBlocked, constructed, initCalls, startCalls, stopCalls, stoppedSent,
                   spontaneous, shutdownCalls, firstBranch, interrupts, emptier,
                   disconnects, sigintShutdowns, startOrder, snapshotOf, plain>>

\* Line 151: featuresReadWriteLock.lock().
MainLock ==
    /\ Running /\ HasTop("main", "main", "lock")
    /\ featuresReadWriteLock = "none"
    /\ featuresReadWriteLock' = "main"
    /\ stack' = [stack EXCEPT !["main"] = SetTop(@, [Top("main") EXCEPT !.pc = "if_jobs"])]
    /\ Did("MainLock", "main", "none")
    /\ UNCHANGED <<features, attemptingShutdown, config, NDEBUG, exitStatus, loggerShutdowns,
                   sigBlocked, resourceManager, constructed, initCalls, startCalls, stopCalls,
                   stoppedSent, spontaneous, shutdownCalls, firstBranch, interrupts, emptier,
                   disconnects, sigintShutdowns, startOrder, snapshotOf, plain>>

\* Lines 152-155 and 158-161: if the feature is enabled it is constructed and
\* its init() is called; otherwise main goes on to `skipTo`.
ConstructAndInit(f, enabled, skipTo) ==
    /\ Running /\ HasTop("main", "main", "if_" \o f)
    /\ IF enabled
       THEN /\ constructed' = constructed \cup {f}
            /\ initCalls' = [initCalls EXCEPT ![f] = @ + 1]
            /\ stack' = [stack EXCEPT !["main"] =
                   Append(SetTop(@, [Top("main") EXCEPT !.pc = "push_" \o f]), Frame("init", "run", f))]
       ELSE /\ stack' = [stack EXCEPT !["main"] = SetTop(@, [Top("main") EXCEPT !.pc = skipTo])]
            /\ UNCHANGED <<constructed, initCalls>>
    /\ Did("ConstructAndInit", "main", f)
    /\ UNCHANGED <<features, featuresReadWriteLock, attemptingShutdown, config, NDEBUG,
                   exitStatus, loggerShutdowns, sigBlocked, resourceManager, startCalls,
                   stopCalls, stoppedSent, spontaneous, shutdownCalls, firstBranch,
                   interrupts, emptier,
                   disconnects, sigintShutdowns, startOrder, snapshotOf, plain>>

\* PushBack inserting at the front of the registry.
PushBack_Front(f, next) ==
    /\ Running /\ HasTop("main", "main", "push_" \o f)
    /\ features' = <<f>> \o features
    /\ stack' = [stack EXCEPT !["main"] = SetTop(@, [Top("main") EXCEPT !.pc = next])]
    /\ Did("PushBack", "main", f)
    /\ UNCHANGED <<featuresReadWriteLock, attemptingShutdown, config, NDEBUG, exitStatus,
                   loggerShutdowns, sigBlocked, resourceManager, constructed, initCalls,
                   startCalls, stopCalls, stoppedSent, spontaneous, shutdownCalls,
                   firstBranch, interrupts, emptier,
                   disconnects, sigintShutdowns, startOrder, snapshotOf, plain>>

\* Lines 156 and 162: features.push_back(f).
PushBack(f, next) ==
    /\ Running /\ HasTop("main", "main", "push_" \o f)
    /\ features' = Append(features, f)
    /\ stack' = [stack EXCEPT !["main"] = SetTop(@, [Top("main") EXCEPT !.pc = next])]
    /\ Did("PushBack", "main", f)
    /\ UNCHANGED <<featuresReadWriteLock, attemptingShutdown, config, NDEBUG, exitStatus,
                   loggerShutdowns, sigBlocked, resourceManager, constructed, initCalls,
                   startCalls, stopCalls, stoppedSent, spontaneous, shutdownCalls,
                   firstBranch, interrupts, emptier,
                   disconnects, sigintShutdowns, startOrder, snapshotOf, plain>>

MainJobsInit == ConstructAndInit("jobs", config.jobs, "if_tunneling")
MainJobsPush == PushBack("jobs", "if_tunneling")
MainTunnelingInit == ConstructAndInit("tunneling", config.tunneling, "start")
MainTunnelingPush == PushBack("tunneling", "start")

\* Lines 164-167: start() on every element of features, in order.
MainStartLoop ==
    /\ Running /\ HasTop("main", "main", "start")
    /\ LET fr == Top("main") IN
       IF fr.i < Len(features)
       THEN /\ startCalls' = [startCalls EXCEPT ![features[fr.i + 1]] = @ + 1]
            /\ startOrder' = Append(startOrder, features[fr.i + 1])
            /\ stack' = [stack EXCEPT !["main"] =
                   Append(SetTop(@, [fr EXCEPT !.i = fr.i + 1]), Frame("start", "run", features[fr.i + 1]))]
            /\ Did("MainStartLoop", "main", features[fr.i + 1])
       ELSE /\ stack' = [stack EXCEPT !["main"] = SetTop(@, [fr EXCEPT !.pc = "unlock"])]
            /\ Did("MainStartLoop", "main", "end")
            /\ UNCHANGED <<startCalls, startOrder>>
    /\ UNCHANGED <<features, featuresReadWriteLock, attemptingShutdown, config, NDEBUG,
                   exitStatus, loggerShutdowns, sigBlocked, resourceManager, constructed,
                   initCalls, stopCalls, stoppedSent, spontaneous, shutdownCalls,
                   firstBranch, interrupts, emptier,
                   disconnects, sigintShutdowns, snapshotOf, plain>>

\* Line 168: featuresReadWriteLock.unlock().
MainUnlock ==
    /\ Running /\ HasTop("main", "main", "unlock")
    /\ featuresReadWriteLock' = "none"
    /\ stack' = [stack EXCEPT !["main"] = SetTop(@, [Top("main") EXCEPT !.pc = "sigwait"])]
    /\ Did("MainUnlock", "main", "none")
    /\ UNCHANGED <<features, attemptingShutdown, config, NDEBUG, exitStatus, loggerShutdowns,
                   sigBlocked, resourceManager, constructed, initCalls, startCalls, stopCalls,
                   stoppedSent, spontaneous, shutdownCalls, firstBranch, interrupts, emptier,
                   disconnects, sigintShutdowns, startOrder, snapshotOf, plain>>

\* MainSigwait going straight to shutdown(), without line 177.
MainSigwait_NoDisconnect ==
    /\ Running /\ HasTop("main", "main", "sigwait")
    /\ interrupts < MaxInterrupts
    /\ interrupts' = interrupts + 1
    /\ stack' = [stack EXCEPT !["main"] = SetTop(@, [Top("main") EXCEPT !.pc = "shutdown"])]
    /\ Did("MainSigwait", "main", "SIGINT")
    /\ UNCHANGED <<features, featuresReadWriteLock, attemptingShutdown, config, NDEBUG,
                   exitStatus, loggerShutdowns, sigBlocked, resourceManager, constructed,
                   initCalls, startCalls, stopCalls, stoppedSent, spontaneous, shutdownCalls,
                   firstBranch, emptier,
                   disconnects, sigintShutdowns, startOrder, snapshotOf, plain>>

\* Lines 173-175: sigwait returns with SIGINT (the only signal of sigset).
MainSigwait ==
    /\ Running /\ HasTop("main", "main", "sigwait")
    /\ interrupts < MaxInterrupts
    /\ interrupts' = interrupts + 1
    /\ stack' = [stack EXCEPT !["main"] = SetTop(@, [Top("main") EXCEPT !.pc = "disconnect"])]
    /\ Did("MainSigwait", "main", "SIGINT")
    /\ UNCHANGED <<features, featuresReadWriteLock, attemptingShutdown, config, NDEBUG,
                   exitStatus, loggerShutdowns, sigBlocked, resourceManager, constructed,
                   initCalls, startCalls, stopCalls, stoppedSent, spontaneous, shutdownCalls,
                   firstBranch, emptier,
                   disconnects, sigintShutdowns, startOrder, snapshotOf, plain>>

\* Line 177: resourceManager->disconnect().
MainDisconnect ==
    /\ Running /\ HasTop("main", "main", "disconnect")
    /\ resourceManager' = "disconnected"
    /\ disconnects' = disconnects + 1
    /\ stack' = [stack EXCEPT !["main"] = SetTop(@, [Top("main") EXCEPT !.pc = "shutdown"])]
    /\ Did("MainDisconnect", "main", "none")
    /\ UNCHANGED <<features, featuresReadWriteLock, attemptingShutdown, config, NDEBUG,
                   exitStatus, loggerShutdowns, sigBlocked, constructed, initCalls, startCalls,
                   stopCalls, stoppedSent, spontaneous, shutdownCalls, firstBranch,
                   interrupts, emptier,
                   sigintShutdowns, startOrder, snapshotOf, plain>>

\* Line 178: shutdown() is called; when it returns the loop waits again.
MainCallShutdown ==
    /\ Running /\ HasTop("main", "main", "shutdown")
    /\ shutdownCalls' = [shutdownCalls EXCEPT !["main"] = @ + 1]
    /\ sigintShutdowns' = sigintShutdowns + 1
    /\ stack' = [stack EXCEPT !["main"] =
           Append(SetTop(@, [Top("main") EXCEPT !.pc = "sigwait"]), Frame("shutdown", "test", "none"))]
    /\ Did("MainCallShutdown", "main", "none")
    /\ UNCHANGED <<features, featuresReadWriteLock, attemptingShutdown, config, NDEBUG,
                   exitStatus, loggerShutdowns, sigBlocked, resourceManager, constructed,
                   initCalls, startCalls, stopCalls, stoppedSent, spontaneous, firstBranch,
                   interrupts, emptier,
                   disconnects, startOrder, snapshotOf, plain>>


\* -------------------------------------------------------------- shutdown

\* Line 31: the test of attemptingShutdown.  The flag is a plain bool read
\* and written without the lock, so the test and the assignment of line 32
\* are separate steps.
ShutdownTest(t) ==
    /\ Running /\ HasTop(t, "shutdown", "test")
    /\ IF ~attemptingShutdown
       THEN /\ stack' = [stack EXCEPT ![t] = SetTop(@, [Top(t) EXCEPT !.pc = "set"])]
            /\ firstBranch' = firstBranch + 1
       ELSE /\ stack' = [stack EXCEPT ![t] = SetTop(@, [Top(t) EXCEPT !.pc = "else_log"])]
            /\ UNCHANGED firstBranch
    /\ Did("ShutdownTest", t, IF ~attemptingShutdown THEN "first" ELSE "else")
    /\ UNCHANGED <<features, featuresReadWriteLock, attemptingShutdown, config, NDEBUG,
                   exitStatus, loggerShutdowns, sigBlocked, resourceManager, constructed,
                   initCalls, startCalls, stopCalls, stoppedSent, spontaneous, shutdownCalls,
                   interrupts, emptier,
                   disconnects, sigintShutdowns, startOrder, snapshotOf, plain>>

\* ShutdownSetFlag without the assignment of line 32.
ShutdownSetFlag_NoSet(t) ==
    /\ Running /\ HasTop(t, "shutdown", "set")
    /\ stack' = [stack EXCEPT ![t] = SetTop(@, [Top(t) EXCEPT !.pc = "lock"])]
    /\ Did("ShutdownSetFlag", t, "none")
    /\ UNCHANGED <<features, featuresReadWriteLock, config, NDEBUG, exitStatus,
                   loggerShutdowns, sigBlocked, resourceManager, constructed, initCalls,
                   startCalls, stopCalls, stoppedSent, spontaneous, shutdownCalls,
                   firstBranch, interrupts, emptier, attemptingShutdown,
                   disconnects, sigintShutdowns, startOrder, snapshotOf, plain>>

\* Line 32: attemptingShutdown = true.
ShutdownSetFlag(t) ==
    /\ Running /\ HasTop(t, "shutdown", "set")
    /\ attemptingShutdown' = TRUE
    /\ stack' = [stack EXCEPT ![t] = SetTop(@, [Top(t) EXCEPT !.pc = "lock"])]
    /\ Did("ShutdownSetFlag", t, "none")
    /\ UNCHANGED <<features, featuresReadWriteLock, config, NDEBUG, exitStatus,
                   loggerShutdowns, sigBlocked, resourceManager, constructed, initCalls,
                   startCalls, stopCalls, stoppedSent, spontaneous, shutdownCalls,
                   firstBranch, interrupts, emptier,
                   disconnects, sigintShutdowns, startOrder, snapshotOf, plain>>

\* Line 34: featuresReadWriteLock.lock().
ShutdownLock(t) ==
    /\ Running /\ HasTop(t, "shutdown", "lock")
    /\ featuresReadWriteLock = "none"
    /\ featuresReadWriteLock' = t
    /\ stack' = [stack EXCEPT ![t] = SetTop(@, [Top(t) EXCEPT !.pc = "copy"])]
    /\ Did("ShutdownLock", t, "none")
    /\ UNCHANGED <<features, attemptingShutdown, config, NDEBUG, exitStatus, loggerShutdowns,
                   sigBlocked, resourceManager, constructed, initCalls, startCalls, stopCalls,
                   stoppedSent, spontaneous, shutdownCalls, firstBranch, interrupts, emptier,
                   disconnects, sigintShutdowns, startOrder, snapshotOf, plain>>

\* ShutdownCopy taking the features as they were started, not the registry.
ShutdownCopy_AsStarted(t) ==
    /\ Running /\ HasTop(t, "shutdown", "copy")
    /\ stack' = [stack EXCEPT ![t] = SetTop(@, [Top(t) EXCEPT !.copy = startOrder, !.pc = "unlock"])]
    /\ snapshotOf' = [snapshotOf EXCEPT ![t] = features]
    /\ Did("ShutdownCopy", t, "none")
    /\ UNCHANGED <<features, featuresReadWriteLock, attemptingShutdown, config, NDEBUG,
                   exitStatus, loggerShutdowns, sigBlocked, resourceManager, constructed,
                   initCalls, startCalls, stopCalls, stoppedSent, spontaneous, shutdownCalls,
                   firstBranch, interrupts, emptier,
                   disconnects, sigintShutdowns, startOrder, plain>>

\* Line 36: featuresCopy = features.
ShutdownCopy(t) ==
    /\ Running /\ HasTop(t, "shutdown", "copy")
    /\ stack' = [stack EXCEPT ![t] = SetTop(@, [Top(t) EXCEPT !.copy = features, !.pc = "unlock"])]
    /\ snapshotOf' = [snapshotOf EXCEPT ![t] = features]
    /\ Did("ShutdownCopy", t, "none")
    /\ UNCHANGED <<features, featuresReadWriteLock, attemptingShutdown, config, NDEBUG,
                   exitStatus, loggerShutdowns, sigBlocked, resourceManager, constructed,
                   initCalls, startCalls, stopCalls, stoppedSent, spontaneous, shutdownCalls,
                   firstBranch, interrupts, emptier,
                   disconnects, sigintShutdowns, startOrder, plain>>

\* Line 37: featuresReadWriteLock.unlock().
ShutdownUnlock(t) ==
    /\ Running /\ HasTop(t, "shutdown", "unlock")
    /\ featuresReadWriteLock' = "none"
    /\ stack' = [stack EXCEPT ![t] = SetTop(@, [Top(t) EXCEPT !.pc = "loop"])]
    /\ Did("ShutdownUnlock", t, "none")
    /\ UNCHANGED <<features, attemptingShutdown, config, NDEBUG, exitStatus, loggerShutdowns,
                   sigBlocked, resourceManager, constructed, initCalls, startCalls, stopCalls,
                   stoppedSent, spontaneous, shutdownCalls, firstBranch, interrupts, emptier,
                   disconnects, sigintShutdowns, startOrder, snapshotOf, plain>>

\* ShutdownStopLoop iterating over the registry itself instead of the copy.
ShutdownStopLoop_OverRegistry(t) ==
    /\ Running /\ HasTop(t, "shutdown", "loop")
    /\ LET fr == Top(t) IN
       IF fr.i < Len(features)
       THEN /\ stopCalls' = [stopCalls EXCEPT ![features[fr.i + 1]] = @ + 1]
            /\ stack' = [stack EXCEPT ![t] =
                   Append(SetTop(@, [fr EXCEPT !.i = fr.i + 1]), Frame("stop", "run", features[fr.i + 1]))]
            /\ Did("ShutdownStopLoop", t, features[fr.i + 1])
       ELSE /\ stack' = [stack EXCEPT ![t] = SetTop(@, [fr EXCEPT !.pc = "log"])]
            /\ Did("ShutdownStopLoop", t, "end")
            /\ UNCHANGED stopCalls
    /\ UNCHANGED <<features, featuresReadWriteLock, attemptingShutdown, config, NDEBUG,
                   exitStatus, loggerShutdowns, sigBlocked, resourceManager, constructed,
                   initCalls, startCalls, stoppedSent, spontaneous, shutdownCalls,
                   firstBranch, interrupts, emptier,
                   disconnects, sigintShutdowns, startOrder, snapshotOf, plain>>

\* Lines 39-42: stop() on every element of featuresCopy, in order.
ShutdownStopLoop(t) ==
    /\ Running /\ HasTop(t, "shutdown", "loop")
    /\ LET fr == Top(t) IN
       IF fr.i < Len(fr.copy)
       THEN /\ stopCalls' = [stopCalls EXCEPT ![fr.copy[fr.i + 1]] = @ + 1]
            /\ stack' = [stack EXCEPT ![t] =
                   Append(SetTop(@, [fr EXCEPT !.i = fr.i + 1]), Frame("stop", "run", fr.copy[fr.i + 1]))]
            /\ Did("ShutdownStopLoop", t, fr.copy[fr.i + 1])
       ELSE /\ stack' = [stack EXCEPT ![t] = SetTop(@, [fr EXCEPT !.pc = "log"])]
            /\ Did("ShutdownStopLoop", t, "end")
            /\ UNCHANGED stopCalls
    /\ UNCHANGED <<features, featuresReadWriteLock, attemptingShutdown, config, NDEBUG,
                   exitStatus, loggerShutdowns, sigBlocked, resourceManager, constructed,
                   initCalls, startCalls, stoppedSent, spontaneous, shutdownCalls,
                   firstBranch, interrupts, emptier,
                   disconnects, sigintShutdowns, startOrder, snapshotOf, plain>>

\* Line 43: the logger is shut down and shutdown() returns.
ShutdownReturn(t) ==
    /\ Running /\ HasTop(t, "shutdown", "log")
    /\ loggerShutdowns' = loggerShutdowns + 1
    /\ stack' = [stack EXCEPT ![t] = Pop(@)]
    /\ Did("ShutdownReturn", t, "none")
    /\ UNCHANGED <<features, featuresReadWriteLock, attemptingShutdown, config, NDEBUG,
                   exitStatus, sigBlocked, resourceManager, constructed, initCalls, startCalls,
                   stopCalls, stoppedSent, spontaneous, shutdownCalls, firstBranch,
                   interrupts, emptier,
                   disconnects, sigintShutdowns, startOrder, snapshotOf, plain>>

\* Line 46: the else-branch shuts the logger down.
ShutdownElseLog(t) ==
    /\ Running /\ HasTop(t, "shutdown", "else_log")
    /\ loggerShutdowns' = loggerShutdowns + 1
    /\ stack' = [stack EXCEPT ![t] = SetTop(@, [Top(t) EXCEPT !.pc = "else_exit"])]
    /\ Did("ShutdownElseLog", t, "none")
    /\ UNCHANGED <<features, featuresReadWriteLock, attemptingShutdown, config, NDEBUG,
                   exitStatus, sigBlocked, resourceManager, constructed, initCalls, startCalls,
                   stopCalls, stoppedSent, spontaneous, shutdownCalls, firstBranch,
                   interrupts, emptier,
                   disconnects, sigintShutdowns, startOrder, snapshotOf, plain>>

\* Line 47: exit(0).
ShutdownExit(t) ==
    /\ Running /\ HasTop(t, "shutdown", "else_exit")
    /\ exitStatus' = "exit0"
    /\ Did("ShutdownExit", t, "none")
    /\ UNCHANGED <<features, featuresReadWriteLock, attemptingShutdown, config, NDEBUG, stack,
                   loggerShutdowns, sigBlocked, resourceManager, constructed, initCalls,
                   startCalls, stopCalls, stoppedSent, spontaneous, shutdownCalls,
                   firstBranch, interrupts, emptier,
                   disconnects, sigintShutdowns, startOrder, snapshotOf, plain>>

\* ------------------------------------------------- handle_feature_stopped

\* Line 52: featuresReadWriteLock.lock().
HandleStoppedLock(t) ==
    /\ Running /\ HasTop(t, "handle_feature_stopped", "lock")
    /\ featuresReadWriteLock = "none"
    /\ featuresReadWriteLock' = t
    /\ stack' = [stack EXCEPT ![t] = SetTop(@, [Top(t) EXCEPT !.pc = "erase"])]
    /\ Did("HandleStoppedLock", t, Top(t).f)
    /\ UNCHANGED <<features, attemptingShutdown, config, NDEBUG, exitStatus, loggerShutdowns,
                   sigBlocked, resourceManager, constructed, initCalls, startCalls, stopCalls,
                   stoppedSent, spontaneous, shutdownCalls, firstBranch, interrupts, emptier,
                   disconnects, sigintShutdowns, startOrder, snapshotOf, plain>>

\* Lines 54-62: the erase loop, then size = features.size().
HandleStoppedErase(t) ==
    /\ Running /\ HasTop(t, "handle_feature_stopped", "erase")
    /\ features' = EraseLoop(features, Top(t).f, 0)
    /\ stack' = [stack EXCEPT ![t] = SetTop(@, [Top(t) EXCEPT !.size = Len(features'), !.pc = "unlock"])]
    /\ emptier' = IF Len(features') = 0 /\ Len(features) > 0 THEN t ELSE emptier
    /\ Did("HandleStoppedErase", t, Top(t).f)
    /\ UNCHANGED <<featuresReadWriteLock, attemptingShutdown, config, NDEBUG, exitStatus,
                   loggerShutdowns, sigBlocked, resourceManager, constructed, initCalls,
                   startCalls, stopCalls, stoppedSent, spontaneous, shutdownCalls,
                   firstBranch, interrupts,
                   disconnects, sigintShutdowns, startOrder, snapshotOf, plain>>

\* Line 63: featuresReadWriteLock.unlock().
HandleStoppedUnlock(t) ==
    /\ Running /\ HasTop(t, "handle_feature_stopped", "unlock")
    /\ featuresReadWriteLock' = "none"
    /\ stack' = [stack EXCEPT ![t] = SetTop(@, [Top(t) EXCEPT !.pc = "check"])]
    /\ Did("HandleStoppedUnlock", t, Top(t).f)
    /\ UNCHANGED <<features, attemptingShutdown, config, NDEBUG, exitStatus, loggerShutdowns,
                   sigBlocked, resourceManager, constructed, initCalls, startCalls, stopCalls,
                   stoppedSent, spontaneous, shutdownCalls, firstBranch, interrupts, emptier,
                   disconnects, sigintShutdowns, startOrder, snapshotOf, plain>>

\* HandleStoppedCheck without the test of line 65: every handler calls shutdown().
HandleStoppedCheck_NoTest(t) ==
    /\ Running /\ HasTop(t, "handle_feature_stopped", "check")
    /\ shutdownCalls' = [shutdownCalls EXCEPT ![t] = @ + 1]
    /\ stack' = [stack EXCEPT ![t] =
           Append(SetTop(@, [Top(t) EXCEPT !.pc = "return"]), Frame("shutdown", "test", "none"))]
    /\ Did("HandleStoppedCheck", t, "shutdown")
    /\ UNCHANGED <<features, featuresReadWriteLock, attemptingShutdown, config, NDEBUG,
                   exitStatus, loggerShutdowns, sigBlocked, resourceManager, constructed,
                   initCalls, startCalls, stopCalls, stoppedSent, spontaneous, firstBranch,
                   interrupts, emptier,
                   disconnects, sigintShutdowns, startOrder, snapshotOf, plain>>

\* Lines 65-69: if size is 0, shutdown() is called; then the handler returns.
HandleStoppedCheck(t) ==
    /\ Running /\ HasTop(t, "handle_feature_stopped", "check")
    /\ IF 0 = Top(t).size
       THEN /\ shutdownCalls' = [shutdownCalls EXCEPT ![t] = @ + 1]
            /\ stack' = [stack EXCEPT ![t] =
                   Append(SetTop(@, [Top(t) EXCEPT !.pc = "return"]), Frame("shutdown", "test", "none"))]
       ELSE /\ stack' = [stack EXCEPT ![t] = Pop(@)]
            /\ UNCHANGED shutdownCalls
    /\ Did("HandleStoppedCheck", t, IF 0 = Top(t).size THEN "shutdown" ELSE "return")
    /\ UNCHANGED <<features, featuresReadWriteLock, attemptingShutdown, config, NDEBUG,
                   exitStatus, loggerShutdowns, sigBlocked, resourceManager, constructed,
                   initCalls, startCalls, stopCalls, stoppedSent, spontaneous, firstBranch,
                   interrupts, emptier,
                   disconnects, sigintShutdowns, startOrder, snapshotOf, plain>>

\* Line 69: the handler returns after shutdown() has returned.
HandleStoppedReturn(t) ==
    /\ Running /\ HasTop(t, "handle_feature_stopped", "return")
    /\ stack' = [stack EXCEPT ![t] = Pop(@)]
    /\ Did("HandleStoppedReturn", t, "none")
    /\ UNCHANGED <<features, featuresReadWriteLock, attemptingShutdown, config, NDEBUG,
                   exitStatus, loggerShutdowns, sigBlocked, resourceManager, constructed,
                   initCalls, startCalls, stopCalls, stoppedSent, spontaneous, shutdownCalls,
                   firstBranch, interrupts, emptier,
                   disconnects, sigintShutdowns, startOrder, snapshotOf, plain>>


\* ---------------------------------------------------------------- features

\* A feature method (init, start or stop) called by the orchestrator returns.
FeatureReturn(t) ==
    /\ Running /\ Len(stack[t]) > 0 /\ Top(t).fn \in {"init", "start", "stop"}
    /\ stack' = [stack EXCEPT ![t] = Pop(@)]
    /\ Did("FeatureReturn", t, Top(t).fn)
    /\ UNCHANGED <<features, featuresReadWriteLock, attemptingShutdown, config, NDEBUG,
                   exitStatus, loggerShutdowns, sigBlocked, resourceManager, constructed,
                   initCalls, startCalls, stopCalls, stoppedSent, spontaneous, shutdownCalls,
                   firstBranch, interrupts, emptier,
                   disconnects, sigintShutdowns, startOrder, snapshotOf, plain>>

\* Where a feature calls its ClientBaseNotifier: on its own thread once it has
\* been started, or on the caller's thread from inside its stop().
CanNotify(t, f) ==
    \/ t = f /\ stack[t] = <<>> /\ startCalls[f] > 0
    \/ HasTop(t, "stop", "run") /\ Top(t).f = f

\* ------------------------------------------------ DefaultClientBaseNotifier

\* Lines 77-92: onEvent.  FEATURE_STOPPED calls handle_feature_stopped(feature);
\* a feature raises it once.
onEvent(t, feature, notification) ==
    /\ Running /\ CanNotify(t, feature)
    /\ IF notification = "FEATURE_STOPPED"
       THEN /\ feature \notin stoppedSent
            /\ stoppedSent' = stoppedSent \cup {feature}
            /\ spontaneous' = IF stopCalls[feature] = 0 THEN spontaneous \cup {feature} ELSE spontaneous
            /\ stack' = [stack EXCEPT ![t] = Append(@, Frame("handle_feature_stopped", "lock", feature))]
       ELSE UNCHANGED <<stoppedSent, spontaneous, stack>>
    /\ last' = [op |-> "onEvent", t |-> t, arg |-> notification]
    /\ UNCHANGED <<features, featuresReadWriteLock, attemptingShutdown, config, NDEBUG,
                   exitStatus, loggerShutdowns, sigBlocked, resourceManager, constructed,
                   initCalls, startCalls, stopCalls, shutdownCalls, firstBranch, interrupts,
                   emptier,
                   disconnects, sigintShutdowns, startOrder, snapshotOf, plain>>

\* onError with the sense of #ifdef NDEBUG (line 107) inverted.
onError_Inverted(t, feature, error) ==
    /\ Running /\ CanNotify(t, feature)
    /\ IF ~NDEBUG
       THEN UNCHANGED <<loggerShutdowns, exitStatus>>
       ELSE /\ loggerShutdowns' = loggerShutdowns + 1
            /\ exitStatus' = "abort"
    /\ last' = [op |-> "onError", t |-> t, arg |-> error]
    /\ UNCHANGED <<features, featuresReadWriteLock, attemptingShutdown, config, NDEBUG, stack,
                   sigBlocked, resourceManager, constructed, initCalls, startCalls, stopCalls,
                   stoppedSent, spontaneous, shutdownCalls, firstBranch, interrupts, emptier,
                   disconnects, sigintShutdowns, startOrder, snapshotOf, plain>>

\* Lines 94-115: onError.  The switch only logs; after it, a build without
\* NDEBUG shuts the logger down and aborts.
onError(t, feature, error) ==
    /\ Running /\ CanNotify(t, feature)
    /\ IF NDEBUG
       THEN UNCHANGED <<loggerShutdowns, exitStatus>>
       ELSE /\ loggerShutdowns' = loggerShutdowns + 1
            /\ exitStatus' = "abort"
    /\ last' = [op |-> "onError", t |-> t, arg |-> error]
    /\ UNCHANGED <<features, featuresReadWriteLock, attemptingShutdown, config, NDEBUG, stack,
                   sigBlocked, resourceManager, constructed, initCalls, startCalls, stopCalls,
                   stoppedSent, spontaneous, shutdownCalls, firstBranch, interrupts, emptier,
                   disconnects, sigintShutdowns, startOrder, snapshotOf, plain>>

\* ------------------------------------------------------------------- spec

Next ==
    \/ \E ok, je, te \in BOOLEAN : MainParse(ok, je, te)
    \/ MainBlockSignal
    \/ \E ok \in BOOLEAN : MainInitResourceManager(ok)
    \/ MainLock
    \/ MainJobsInit
    \/ MainJobsPush
    \/ MainTunnelingInit
    \/ MainTunnelingPush
    \/ MainStartLoop
    \/ MainUnlock
    \/ MainSigwait
    \/ MainDisconnect
    \/ MainCallShutdown
    \/ \E t \in Threads : ShutdownTest(t)
    \/ \E t \in Threads : ShutdownSetFlag(t)
    \/ \E t \in Threads : ShutdownLock(t)
    \/ \E t \in Threads : ShutdownCopy(t)
    \/ \E t \in Threads : ShutdownUnlock(t)
    \/ \E t \in Threads : ShutdownStopLoop(t)
    \/ \E t \in Threads : ShutdownReturn(t)
    \/ \E t \in Threads : ShutdownElseLog(t)
    \/ \E t \in Threads : ShutdownExit(t)
    \/ \E t \in Threads : HandleStoppedLock(t)
    \/ \E t \in Threads : HandleStoppedErase(t)
    \/ \E t \in Threads : HandleStoppedUnlock(t)
    \/ \E t \in Threads : HandleStoppedCheck(t)
    \/ \E t \in Threads : HandleStoppedReturn(t)
    \/ \E t \in Threads : FeatureReturn(t)
    \/ \E t \in Threads, f \in Features, n \in EventKinds : onEvent(t, f, n)
    \/ \E t \in Threads, f \in Features, e \in ErrorKinds : onError(t, f, e)

Spec == Init /\ [][Next]_vars


\* ------------------------------------------------- configuration resolver
\* PlainConfig (config/Config.h, exercised by test/config/TestConfig.cpp):
\* LoadFromJson, LoadFromCliArgs, LoadFromEnvironment and Validate.  A layer
\* is a partial view of the fields; "absent" marks a field a layer does not
\* supply (or an optional that holds no value), port 0 an absent port.

Absent == "absent"
IdentityFields == {"endpoint", "cert", "key", "rootCa", "thingName"}

\* A conversion that leaves the string as it is.
Lower_Identity(str) == str

\* Lower-casing of the strings the layers carry.
Lower(str) ==
    CASE str = "DEBUG" -> "debug"
      [] str = "WARN" -> "warn"
      [] str = "STDOUT" -> "stdout"
      [] str = "FILE" -> "file"
      [] OTHER -> str

LogLevelNames == {"error", "warn", "info", "debug"}

\* Ordinal of a (lower-case) level name.
LogLevelOrdinal(name) ==
    CASE name = "error" -> 0
      [] name = "warn" -> 1
      [] name = "info" -> 2
      [] name = "debug" -> 3

\* A lookup that knows no service.
GetPortFromService_Unknown(service) == 0

\* Static service -> port lookup; 0 when the service is not known.
GetPortFromService(service) ==
    CASE service = "SSH" -> 22
      [] OTHER -> 0

\* A PlainConfig whose fleet-provisioning default is enabled.
DefaultConfig_FleetOn ==
    [endpoint |-> Absent, cert |-> Absent, key |-> Absent, rootCa |-> Absent,
     thingName |-> Absent,
     logLevel |-> LogLevelOrdinal("debug"), logLevelOk |-> TRUE,
     logType |-> "stdout", logFile |-> "default.log",
     jobsEnabled |-> TRUE, tunnelingEnabled |-> TRUE,
     deviceDefenderEnabled |-> TRUE, fleetProvisioningEnabled |-> TRUE,
     region |-> Absent, destinationAccessToken |-> Absent, port |-> 0,
     service |-> Absent, subscribeNotification |-> TRUE, anyLoaded |-> FALSE]

\* A default-constructed PlainConfig.
DefaultConfig ==
    [endpoint |-> Absent, cert |-> Absent, key |-> Absent, rootCa |-> Absent,
     thingName |-> Absent,
     logLevel |-> LogLevelOrdinal("debug"), logLevelOk |-> TRUE,
     logType |-> "stdout", logFile |-> "default.log",
     jobsEnabled |-> TRUE, tunnelingEnabled |-> TRUE,
     deviceDefenderEnabled |-> TRUE, fleetProvisioningEnabled |-> FALSE,
     region |-> Absent, destinationAccessToken |-> Absent, port |-> 0,
     service |-> Absent, subscribeNotification |-> TRUE, anyLoaded |-> FALSE]

\* A layer that supplies nothing.
EmptyLayer ==
    [id |-> {}, level |-> Absent, type |-> Absent, file |-> Absent,
     tunnelingEnabled |-> Absent, region |-> Absent, service |-> Absent,
     port |-> 0, disableNotification |-> FALSE]

LayerIsEmpty(in) == in = EmptyLayer

\* The identity fields a layer supplies: all, all but one, or none.
IdentityChoices == {IdentityFields, {}} \cup {IdentityFields \ {f} : f \in IdentityFields}

\* JSON documents: an identity choice, and a logging object or a tunneling
\* object (or neither).
FileInputs ==
    {[EmptyLayer EXCEPT !.id = i, !.level = l, !.type = ty, !.file = fi] :
        i \in IdentityChoices, l \in {Absent, "DEBUG", "debug", "bogus"},
        ty \in {Absent, "STDOUT"}, fi \in {Absent, "old-json-log.log"}}
    \cup
    {[EmptyLayer EXCEPT !.id = i, !.tunnelingEnabled = e] :
        i \in IdentityChoices, e \in {"true", "false"}}

\* CLI argument maps: an identity choice, and logging flags or tunneling
\* flags (or neither).
CliInputs ==
    {[EmptyLayer EXCEPT !.id = i, !.level = l, !.type = ty, !.file = fi] :
        i \in IdentityChoices, l \in {Absent, "warn"},
        ty \in {Absent, "FILE"}, fi \in {Absent, "./client.log"}}
    \cup
    {[EmptyLayer EXCEPT !.id = i, !.region = r, !.service = sv, !.port = po,
                        !.disableNotification = d] :
        i \in IdentityChoices, r \in {Absent, "region value"},
        sv \in {Absent, "SSH", "BOGUS"}, po \in {0, 5555}, d \in BOOLEAN}

\* Values of AWSIOT_TUNNEL_ACCESS_TOKEN.
EnvInputs == {Absent, "destination_access_token_value"}

Pick(new, old) == IF new = Absent THEN old ELSE new

\* One layer applied to the configuration, field by field: a field the layer
\* supplies is overwritten (src names the layer in the identity values), any
\* other field keeps its value.  A service without an explicit port derives
\* the port; an explicit port wins.
ApplyLayer(cfg, in, src) ==
    [cfg EXCEPT
        !.endpoint = IF "endpoint" \in in.id THEN src ELSE @,
        !.cert = IF "cert" \in in.id THEN src ELSE @,
        !.key = IF "key" \in in.id THEN src ELSE @,
        !.rootCa = IF "rootCa" \in in.id THEN src ELSE @,
        !.thingName = IF "thingName" \in in.id THEN src ELSE @,
        !.logLevel = IF in.level # Absent /\ Lower(in.level) \in LogLevelNames
                     THEN LogLevelOrdinal(Lower(in.level)) ELSE @,
        !.logLevelOk = IF in.level # Absent THEN Lower(in.level) \in LogLevelNames ELSE @,
        !.logType = IF in.type # Absent THEN Lower(in.type) ELSE @,
        !.logFile = Pick(in.file, @),
        !.tunnelingEnabled = IF in.tunnelingEnabled = Absent THEN @
                             ELSE in.tunnelingEnabled = "true",
        !.region = Pick(in.region, @),
        !.service = Pick(in.service, @),
        !.port = IF in.port # 0 THEN in.port
                 ELSE IF in.service # Absent THEN GetPortFromService(in.service)
                 ELSE @,
        !.subscribeNotification = IF in.disableNotification THEN FALSE ELSE @,
        !.anyLoaded = @ \/ ~LayerIsEmpty(in)]

\* Validate() that requires the identity fields in every build.
Validate_AlwaysIdentity(cfg, tunnelingOnly) ==
    /\ cfg.anyLoaded
    /\ \A f \in IdentityFields : cfg[f] # Absent
    /\ cfg.logLevelOk
    /\ (cfg.tunnelingEnabled /\ cfg.service # Absent) => cfg.port # 0

\* Validate(): the identity fields are required unless the build is
\* tunneling-only (DISABLE_MQTT); an unrecognised log level, an enabled
\* tunneling whose service resolves to no port, and a configuration no layer
\* supplied anything to are rejected.
Validate(cfg, tunnelingOnly) ==
    /\ cfg.anyLoaded
    /\ tunnelingOnly \/ \A f \in IdentityFields : cfg[f] # Absent
    /\ cfg.logLevelOk
    /\ (cfg.tunnelingEnabled /\ cfg.service # Absent) => cfg.port # 0

\* The orchestrator's variables, which the resolver leaves alone.
orchVars == <<features, featuresReadWriteLock, attemptingShutdown, config, NDEBUG,
              stack, exitStatus, loggerShutdowns, sigBlocked, resourceManager,
              constructed, initCalls, startCalls, stopCalls, stoppedSent,
              spontaneous, shutdownCalls, firstBranch, interrupts, emptier, last,
              disconnects, sigintShutdowns, startOrder, snapshotOf>>

ConfigInit ==
    /\ features = <<>>
    /\ featuresReadWriteLock = "none"
    /\ attemptingShutdown = FALSE
    /\ config = [jobs |-> FALSE, tunneling |-> FALSE]
    /\ NDEBUG = TRUE
    /\ stack = [t \in Threads |-> IF t = "main" THEN <<Frame("main", "parse", "none")>> ELSE <<>>]
    /\ exitStatus = "running"
    /\ loggerShutdowns = 0
    /\ sigBlocked = FALSE
    /\ resourceManager = "none"
    /\ constructed = {}
    /\ initCalls = [f \in Features |-> 0]
    /\ startCalls = [f \in Features |-> 0]
    /\ stopCalls = [f \in Features |-> 0]
    /\ stoppedSent = {}
    /\ spontaneous = {}
    /\ shutdownCalls = [t \in Threads |-> 0]
    /\ firstBranch = 0
    /\ interrupts = 0
    /\ emptier = "none"
    /\ last = [op |-> "init", t |-> "main", arg |-> "none"]
    /\ disconnects = 0
    /\ sigintShutdowns = 0
    /\ startOrder = <<>>
    /\ snapshotOf = [t \in Threads |-> <<>>]
    /\ plain = [stage |-> "new", cfg |-> DefaultConfig, fileIn |-> EmptyLayer,
                cliIn |-> EmptyLayer, env |-> Absent, tunnelingOnly |-> FALSE,
                ok |-> FALSE]

\* config.LoadFromJson(jsonView)
LoadFromJson(in) ==
    /\ plain.stage = "new"
    /\ plain' = [plain EXCEPT !.stage = "json", !.fileIn = in,
                              !.cfg = ApplyLayer(plain.cfg, in, "json value")]
    /\ UNCHANGED orchVars

\* config.LoadFromCliArgs(cliArgs)
LoadFromCliArgs(in) ==
    /\ plain.stage = "json"
    /\ plain' = [plain EXCEPT !.stage = "cli", !.cliIn = in,
                              !.cfg = ApplyLayer(plain.cfg, in, "cli value")]
    /\ UNCHANGED orchVars

\* config.LoadFromEnvironment(): the access token, when the variable is set.
LoadFromEnvironment(token) ==
    /\ plain.stage = "cli"
    /\ plain' = [plain EXCEPT !.stage = "env", !.env = token,
                              !.cfg = [plain.cfg EXCEPT
                                  !.destinationAccessToken = Pick(token, @),
                                  !.anyLoaded = @ \/ token # Absent]]
    /\ UNCHANGED orchVars

\* config.Validate(), in the normal or in the tunneling-only build.
ConfigValidate(tunnelingOnly) ==
    /\ plain.stage = "env"
    /\ plain' = [plain EXCEPT !.stage = "validated", !.tunnelingOnly = tunnelingOnly,
                              !.ok = Validate(plain.cfg, tunnelingOnly)]
    /\ UNCHANGED orchVars

ConfigNext ==
    \/ \E in \in FileInputs : LoadFromJson(in)
    \/ \E in \in CliInputs : LoadFromCliArgs(in)
    \/ \E token \in EnvInputs : LoadFromEnvironment(token)
    \/ \E tunnelingOnly \in BOOLEAN : ConfigValidate(tunnelingOnly)

ConfigSpec == ConfigInit /\ [][ConfigNext]_vars

\* ----------------------------------------------------------------- claims

TotalShutdownCalls == shutdownCalls["main"] + shutdownCalls["jobs"] + shutdownCalls["tunneling"]

InFeatureCode(t) == \E k \in 1..Len(stack[t]) : stack[t][k].fn \in {"init", "start", "stop"}

\* main waits in sigwait and no feature thread is inside the orchestrator.
Quiescent ==
    /\ Len(stack["main"]) = 1 /\ HasTop("main", "main", "sigwait")
    /\ \A f \in Features : stack[f] = <<>>

\* C1: when one thread calls shutdown() a second time, no feature has had
\* stop() invoked more than once, and the second call can only be in the
\* else-branch (flag already set), where it shuts the logger down and
\* exits with status 0; there is never a third call.
C1_SecondShutdownTerminates ==
    /\ \A f \in Features : stopCalls[f] <= 1
    /\ \A t \in Threads :
          /\ shutdownCalls[t] <= 2
          /\ shutdownCalls[t] = 2 =>
                \/ exitStatus = "exit0"
                \/ /\ attemptingShutdown
                   /\ \/ HasTop(t, "shutdown", "test")
                      \/ HasTop(t, "shutdown", "else_log")
                      \/ HasTop(t, "shutdown", "else_exit")
    /\ last.op = "ShutdownExit" => exitStatus = "exit0" /\ loggerShutdowns >= 1

C1_Witness ==
    /\ interrupts = 2 /\ shutdownCalls["main"] = 2
    /\ last.op = "ShutdownExit" /\ last.t = "main" /\ exitStatus = "exit0"
    /\ features = <<"jobs", "tunneling">>
    /\ \A f \in Features : stopCalls[f] = 1

\* C2: with no interrupt taken, shutdown() is called at most once, only by
\* the thread whose handler emptied the registry, and exactly once when all
\* N >= 1 registered features have had their FEATURE_STOPPED handled.
C2_OneShutdownOnLastStopped ==
    interrupts = 0 =>
        /\ TotalShutdownCalls <= 1
        /\ \A t \in Threads : shutdownCalls[t] = 1 => emptier = t
        /\ (constructed # {} /\ constructed \subseteq stoppedSent /\ Quiescent)
              => TotalShutdownCalls = 1

C2_Witness ==
    /\ interrupts = 0 /\ constructed = Features /\ stoppedSent = Features
    /\ Quiescent /\ exitStatus = "running"
    /\ emptier = "jobs" /\ shutdownCalls["jobs"] = 1 /\ TotalShutdownCalls = 1

\* C3: at most one shutdown() call takes the first-call branch.
C3_SingleFirstBranch == firstBranch <= 1

\* C4: a thread that is executing a feature's init(), start() or stop() does
\* not hold the registry lock.
C4_LockNotHeldInFeatureCode ==
    \A t \in Threads : InFeatureCode(t) => featuresReadWriteLock # t

\* C5: after one interrupt, with every FEATURE_STOPPED raised after stop(),
\* once every stopped feature's event is handled and nothing is left to run
\* the process has exited with status 0.
C5_TerminatesAfterInterrupt ==
    (/\ interrupts = 1 /\ spontaneous = {} /\ Quiescent
     /\ \A f \in Features : stopCalls[f] > 0 => f \in stoppedSent
     /\ exitStatus # "abort")
        => exitStatus = "exit0"

\* C6: with no interrupt, once every registered feature has raised
\* FEATURE_STOPPED and all handlers have returned, the process has terminated.
C6_NaturalTermination ==
    (/\ interrupts = 0 /\ constructed # {} /\ constructed \subseteq stoppedSent
     /\ Quiescent /\ exitStatus # "abort")
        => exitStatus = "exit0"

\* C7: an onError whose kind is not MESSAGE_RECEIVED_AFTER_SHUTDOWN leaves the
\* process running and the registry and the shutdown flag unchanged, in
\* either build.
C7_OtherErrorsHarmless ==
    [][(last'.op = "onError" /\ last'.arg # "MESSAGE_RECEIVED_AFTER_SHUTDOWN")
          => /\ exitStatus' = "running"
             /\ features' = features
             /\ attemptingShutdown' = attemptingShutdown]_vars

\* C8: onError(MESSAGE_RECEIVED_AFTER_SHUTDOWN) aborts the process in the
\* debug build; in the NDEBUG build the process keeps running and the
\* registry and the shutdown flag are unchanged.
C8_MessageAfterShutdown ==
    [][(last'.op = "onError" /\ last'.arg = "MESSAGE_RECEIVED_AFTER_SHUTDOWN")
          => IF NDEBUG
             THEN /\ exitStatus' = "running"
                  /\ features' = features
                  /\ attemptingShutdown' = attemptingShutdown
             ELSE exitStatus' = "abort" /\ loggerShutdowns' = loggerShutdowns + 1]_vars

C8_Witness ==
    /\ last.op = "onError" /\ last.arg = "MESSAGE_RECEIVED_AFTER_SHUTDOWN"
    /\ ~NDEBUG /\ exitStatus = "abort" /\ attemptingShutdown

\* C9: when CLI parsing or config.init fails the process has exited with
\* status 0, the resource manager is not initialised, no feature is
\* constructed, initialised, registered or started, and the flag is unset.
C9_ConfigFailureExitsClean ==
    (last.op = "MainParse" /\ last.arg = "failed") =>
        /\ exitStatus = "exit0"
        /\ resourceManager = "none"
        /\ constructed = {} /\ features = <<>>
        /\ \A f \in Features : initCalls[f] = 0 /\ startCalls[f] = 0
        /\ ~attemptingShutdown

C9_Witness ==
    /\ last.op = "MainParse" /\ last.arg = "failed"
    /\ exitStatus = "exit0" /\ loggerShutdowns = 1

\* C10: while the resource manager is not initialised no feature is
\* constructed, initialised, registered or started, and a failed
\* initialisation leaves the process aborted.
C10_ResourceManagerFailureAborts ==
    /\ resourceManager = "none" =>
          /\ constructed = {} /\ features = <<>>
          /\ \A f \in Features : initCalls[f] = 0 /\ startCalls[f] = 0
    /\ (last.op = "MainInitResourceManager" /\ last.arg = "failed") =>
          exitStatus = "abort" /\ resourceManager = "none"

C10_Witness ==
    /\ last.op = "MainInitResourceManager" /\ last.arg = "failed"
    /\ exitStatus = "abort" /\ sigBlocked /\ loggerShutdowns = 1


\* C11: every SIGINT taken by main's loop is followed by one disconnect()
\* and then one shutdown() call on main (the three counts agree whenever main
\* is back in sigwait, and a shutdown() never precedes its disconnect());
\* on a feature thread shutdown() is only ever called from
\* handle_feature_stopped; SIGINT is blocked before the resource manager is
\* initialised, before any feature is constructed or started and before any
\* interrupt is taken.
C11_InterruptHandling ==
    /\ sigintShutdowns <= disconnects /\ disconnects <= interrupts
    /\ interrupts <= sigintShutdowns + 1
    /\ stack["main"][1].pc = "sigwait" =>
          sigintShutdowns = interrupts /\ disconnects = interrupts
    /\ sigintShutdowns <= shutdownCalls["main"]
    /\ \A f \in Features : \A k \in 1..Len(stack[f]) :
          stack[f][k].fn = "shutdown" =>
              k > 1 /\ stack[f][k - 1].fn = "handle_feature_stopped"
    /\ (\/ resourceManager # "none" \/ constructed # {} \/ interrupts > 0
        \/ \E f \in Features : startCalls[f] > 0) => sigBlocked

C11_Witness ==
    /\ interrupts = 2 /\ disconnects = 2 /\ sigintShutdowns = 2
    /\ resourceManager = "disconnected" /\ exitStatus = "exit0"


\* ------------------------------------------------- claims on the resolver

SuppliedIdentity == plain.fileIn.id \cup plain.cliIn.id

\* The layers supply identity fields and nothing else.
IdentityOnly ==
    /\ plain.fileIn = [EmptyLayer EXCEPT !.id = plain.fileIn.id]
    /\ plain.cliIn = [EmptyLayer EXCEPT !.id = plain.cliIn.id]
    /\ plain.env = Absent

\* C12: an input made of the five identity fields only, given by the file
\* or by the CLI, validates (in either build), and the enabled flags have
\* their defaults: jobs, tunneling, device-defender on, fleet-provisioning
\* off, subscribeNotification true.
C12_MinimumConfigDefaults ==
    (plain.stage = "validated" /\ IdentityOnly /\ SuppliedIdentity = IdentityFields) =>
        /\ plain.ok
        /\ \A f \in IdentityFields : plain.cfg[f] # Absent
        /\ plain.cfg.jobsEnabled /\ plain.cfg.tunnelingEnabled
        /\ plain.cfg.deviceDefenderEnabled /\ ~plain.cfg.fleetProvisioningEnabled
        /\ plain.cfg.subscribeNotification

C12_Witness ==
    /\ plain.stage = "validated" /\ ~plain.tunnelingOnly /\ plain.ok
    /\ plain.fileIn = EmptyLayer
    /\ plain.cliIn = [EmptyLayer EXCEPT !.id = IdentityFields]
    /\ plain.env = Absent

\* The fields of the configuration a layer can supply as they are.
PlainFields == IdentityFields \cup {"logFile", "region", "service"}

\* The value a layer supplies for a field of PlainFields, Absent if none.
Supplied(in, f, src) ==
    CASE f \in IdentityFields -> IF f \in in.id THEN src ELSE Absent
      [] f = "logFile" -> in.file
      [] f = "region" -> in.region
      [] f = "service" -> in.service

\* What a layer does to the configuration, field by field.
MergedFrom(old, new, in, src) ==
    /\ \A f \in PlainFields :
          new[f] = IF Supplied(in, f, src) # Absent THEN Supplied(in, f, src) ELSE old[f]
    /\ in.level = Absent => new.logLevel = old.logLevel
    /\ in.level \in {"warn", "WARN"} => new.logLevel = 1
    /\ in.level \in {"debug", "DEBUG"} => new.logLevel = 3
    /\ in.type = Absent => new.logType = old.logType
    /\ in.type \in {"FILE", "file"} => new.logType = "file"
    /\ in.type \in {"STDOUT", "stdout"} => new.logType = "stdout"

\* C13: LoadFromJson and then LoadFromCliArgs merge field by field: a field
\* the layer supplies takes the layer's value, any other keeps its value; a
\* level string maps case-insensitively to its ordinal (warn 1, debug 3) and
\* a type string is stored in lower case.
C13_FieldByFieldMerge ==
    [][/\ (plain.stage = "new" /\ plain'.stage = "json")
            => MergedFrom(plain.cfg, plain'.cfg, plain'.fileIn, "json value")
       /\ (plain.stage = "json" /\ plain'.stage = "cli")
            => MergedFrom(plain.cfg, plain'.cfg, plain'.cliIn, "cli value")]_vars

C13_Witness ==
    /\ plain.stage = "cli"
    /\ plain.fileIn = [EmptyLayer EXCEPT !.id = IdentityFields, !.level = "DEBUG",
                           !.type = "STDOUT", !.file = "old-json-log.log"]
    /\ plain.cliIn = [EmptyLayer EXCEPT !.level = "warn", !.type = "FILE",
                           !.file = "./client.log"]
    /\ plain.cfg.logLevel = 1 /\ plain.cfg.logType = "file"
    /\ plain.cfg.logFile = "./client.log" /\ plain.cfg.endpoint = "json value"

\* C14: after file, CLI and environment are loaded with tunneling enabled:
\* subscribeNotification is false when the CLI carries the
\* disable-notification flag, the port is the explicit one when the CLI gives
\* one and otherwise the mapped port of the service ("SSH" gives 22), the
\* region is the CLI's, and the access token is the environment's.
C14_TunnelingResolution ==
    (plain.stage \in {"env", "validated"} /\ plain.cfg.tunnelingEnabled) =>
        /\ plain.cliIn.disableNotification => ~plain.cfg.subscribeNotification
        /\ plain.cliIn.port # 0 => plain.cfg.port = plain.cliIn.port
        /\ (plain.cliIn.port = 0 /\ plain.cliIn.service = "SSH") => plain.cfg.port = 22
        /\ plain.cliIn.region # Absent => plain.cfg.region = plain.cliIn.region
        /\ plain.env # Absent => plain.cfg.destinationAccessToken = plain.env

C14_Witness ==
    /\ plain.stage = "validated" /\ plain.ok /\ ~plain.tunnelingOnly
    /\ plain.fileIn = [EmptyLayer EXCEPT !.id = IdentityFields, !.tunnelingEnabled = "true"]
    /\ plain.cliIn = [EmptyLayer EXCEPT !.region = "region value", !.service = "SSH",
                                        !.disableNotification = TRUE]
    /\ plain.env = "destination_access_token_value"
    /\ plain.cfg.port = 22 /\ ~plain.cfg.subscribeNotification
    /\ plain.cfg.destinationAccessToken = "destination_access_token_value"

InStop(t) == Len(stack[t]) > 0 /\ Top(t).fn = "stop"

\* The activations of shutdown() that are in, or past, the stop loop.
StopLoops == {<<t, k>> \in Threads \X (1..5) :
                 /\ k <= Len(stack[t]) /\ stack[t][k].fn = "shutdown"
                 /\ stack[t][k].pc \in {"loop", "log"}}

WaitsForLock(t) ==
    \/ HasTop(t, "shutdown", "lock") \/ HasTop(t, "handle_feature_stopped", "lock")
    \/ HasTop(t, "main", "lock")

\* Every handle of the snapshot has had stop() called on it.
Visited(fr) == fr.i = Len(fr.copy) /\ \A k \in 1..Len(fr.copy) : stopCalls[fr.copy[k]] >= 1

\* The handler runs on thread t directly inside a stop() called by the stop
\* loop at depth k: FEATURE_STOPPED was delivered synchronously.
SyncDelivery(t, k) ==
    /\ Len(stack[t]) >= k + 2
    /\ stack[t][k + 1].fn = "stop" /\ stack[t][k + 2].fn = "handle_feature_stopped"

EnabledFeatures ==
    (IF config.jobs THEN <<"jobs">> ELSE <<>>) \o
    (IF config.tunneling THEN <<"tunneling">> ELSE <<>>)

IsPrefix(a, b) == Len(a) <= Len(b) /\ SubSeq(b, 1, Len(a)) = a

MainPc == stack["main"][1].pc

Registering == {"lock", "if_jobs", "push_jobs", "if_tunneling", "push_tunneling"}
AfterStartup == {"sigwait", "disconnect", "shutdown"}

\* C17: the registry built by startup is the enabled features, jobs before
\* tunneling; start() is called in that order, exactly once on each
\* registered feature; nothing is registered or started once the shutdown
\* flag is set.
C17_RegistrationAndStartOrder ==
    /\ MainPc \in {"parse", "sigmask", "rminit"} => features = <<>> /\ startOrder = <<>>
    /\ MainPc \in Registering => IsPrefix(features, EnabledFeatures) /\ startOrder = <<>>
    /\ MainPc = "if_tunneling" => features = (IF config.jobs THEN <<"jobs">> ELSE <<>>)
    /\ MainPc = "start" =>
          /\ features = EnabledFeatures /\ IsPrefix(startOrder, features)
          /\ Len(startOrder) = stack["main"][1].i
    /\ MainPc = "unlock" => features = EnabledFeatures
    /\ MainPc \in {"unlock"} \cup AfterStartup => startOrder = EnabledFeatures
    /\ \A f \in Features :
          /\ startCalls[f] = Cardinality({k \in 1..Len(startOrder) : startOrder[k] = f})
          /\ startCalls[f] <= 1
          /\ startCalls[f] = 1 => f \in constructed /\ config[f]
    /\ attemptingShutdown => MainPc \in AfterStartup

C17_Witness ==
    /\ MainPc = "sigwait" /\ config.jobs /\ config.tunneling
    /\ startOrder = <<"jobs", "tunneling">>
    /\ startCalls = [f \in Features |-> 1]
    /\ features = <<"jobs", "tunneling">> /\ ~attemptingShutdown


\* The sequence v without the element x, the rest in their order.
Without(v, x) == SelectSeq(v, LAMBDA y : y # x)

HandlerSteps == {"HandleStoppedLock", "HandleStoppedUnlock", "HandleStoppedCheck",
                 "HandleStoppedReturn"}

\* C18: onEvent with a kind other than FEATURE_STOPPED changes neither the
\* registry nor the shutdown flag and calls nothing; handling FEATURE_STOPPED
\* of h removes exactly h from the registry, once, keeping the other members
\* in their order, and no other step of the handler touches the registry.
C18_EventFrameEffects ==
    [][/\ (last'.op = "onEvent" /\ last'.arg # "FEATURE_STOPPED") =>
             /\ features' = features /\ attemptingShutdown' = attemptingShutdown
             /\ shutdownCalls' = shutdownCalls /\ stack' = stack
             /\ featuresReadWriteLock' = featuresReadWriteLock
             /\ exitStatus' = exitStatus
       /\ (last'.op = "onEvent" /\ last'.arg = "FEATURE_STOPPED") =>
             /\ features' = features /\ attemptingShutdown' = attemptingShutdown
       /\ last'.op = "HandleStoppedErase" =>
             /\ \E k \in 1..Len(features) : features[k] = last'.arg
             /\ features' = Without(features, last'.arg)
             /\ Len(features') = Len(features) - 1
             /\ attemptingShutdown' = attemptingShutdown
       /\ last'.op \in HandlerSteps => features' = features]_vars

C18_Witness ==
    /\ last.op = "HandleStoppedErase" /\ last.arg = "jobs"
    /\ features = <<"tunneling">> /\ startOrder = <<"jobs", "tunneling">>


Elems(v) == {v[k] : k \in 1..Len(v)}

\* C19: stop() is called at most once on each feature, and only on a
\* feature that was in the registry at the moment the calling thread took
\* its snapshot under the lock.
C19_StopAtMostOnceFromSnapshot ==
    [][/\ \A f \in Features : stopCalls'[f] <= 1
       /\ last'.op = "ShutdownCopy" =>
             /\ featuresReadWriteLock = last'.t
             /\ snapshotOf'[last'.t] = features
       /\ (last'.op = "ShutdownStopLoop" /\ last'.arg \in Features) =>
             /\ last'.arg \in Elems(snapshotOf[last'.t])
             /\ stopCalls[last'.arg] = 0 /\ stopCalls'[last'.arg] = 1
       /\ \A f \in Features : stopCalls'[f] # stopCalls[f] => last'.op = "ShutdownStopLoop"]_vars

C19_Witness ==
    /\ last.op = "ShutdownStopLoop" /\ last.arg = "tunneling"
    /\ snapshotOf["main"] = <<"tunneling">> /\ startOrder = <<"jobs", "tunneling">>
    /\ "jobs" \in spontaneous /\ stopCalls = [f \in Features |-> IF f = "tunneling" THEN 1 ELSE 0]
    /\ interrupts = 1


NoDuplicates(v) == \A j, k \in 1..Len(v) : v[j] = v[k] => j = k

\* FEATURE_STOPPED of f was raised and its handler is past the erase loop.
FullyHandled(f) ==
    /\ f \in stoppedSent
    /\ \A t \in Threads : \A k \in 1..Len(stack[t]) :
          ~ (/\ stack[t][k].fn = "handle_feature_stopped" /\ stack[t][k].f = f
             /\ stack[t][k].pc \in {"lock", "erase"})

\* C20: in every state the registry holds no handle twice, holds only
\* features that startup registered, and holds no feature whose
\* FEATURE_STOPPED has been fully handled; the shutdown flag never returns to
\* false; after startup has released the lock a step leaves the registry as
\* it is or removes one member, so an empty registry stays empty.
C20_RegistryOnlyShrinks ==
    [][/\ NoDuplicates(features')
       /\ Elems(features') \subseteq constructed' \cap Elems(EnabledFeatures')
       /\ \A f \in Features : FullyHandled(f)' => f \notin Elems(features')
       /\ attemptingShutdown => attemptingShutdown'
       /\ MainPc \in AfterStartup =>
             /\ \/ features' = features
                \/ \E f \in Elems(features) : features' = Without(features, f)
             /\ Elems(features') \subseteq Elems(startOrder)
             /\ features = <<>> => features' = <<>>]_vars

C20_Witness ==
    /\ MainPc \in AfterStartup /\ features = <<>> /\ attemptingShutdown
    /\ startOrder = <<"jobs", "tunneling">> /\ \A f \in Features : FullyHandled(f)
    /\ last.op = "ShutdownSetFlag" /\ emptier = last.t


====
